---- MODULE Spec2Model ----
(***************************************************************************)
(* struct_auto_from: the attribute macros auto_from / auto_from_ns, the    *)
(* From implementation they emit, and one call of the emitted from().      *)
(*                                                                         *)
(* A run is: one annotated item and one macro argument (Init), one macro   *)
(* expansion (auto_from or auto_from_ns), and then, when rustc accepts the *)
(* emitted code, one call of the emitted from(value) executed statement by *)
(* statement.                                                              *)
(***************************************************************************)
EXTENDS Integers, Sequences, FiniteSets, TLC

VARIABLES pc, attrs, input, value, via, data, tokens, out, k, reads

vars == <<pc, attrs, input, value, via, data, tokens, out, k, reads>>

\* ------------------------------------------------------------------ bounds

\* Most fields a struct declaration carries.
MaxFields == 2

\* Longest fixed-size array, destination or source.
MaxArrayLen == 2

\* ------------------------------------------------------------- syntax tree

\* Field identifiers, by position in the declaration (all distinct).
FieldNames == <<"a", "b", "c", "d">>

None == <<>>

Some(x) == <<x>>

\* syn::Attribute: kind is the shape of its Meta (Meta::Path, Meta::List,
\* Meta::NameValue), path its path; name/expr are the one argument a list
\* carries (name = "" for an empty list).
Attr(kind, path, name, expr) == [kind |-> kind, path |-> path, name |-> name, expr |-> expr]

\* #[auto_from_attr(default_value = e)]
DefaultAttr(e) == Attr("list", "auto_from_attr", "default_value", e)

\* #[auto_from_attr()]
EmptyAttr == Attr("list", "auto_from_attr", "", "")

\* #[auto_from_attr(defualt = -1)]: an argument name AutoFromAttr has not
UnknownArgAttr == Attr("list", "auto_from_attr", "defualt", "-1")

\* #[auto_from_attr(default_value = @)]: not an expression
BadExprAttr == Attr("list", "auto_from_attr", "default_value", "@")

\* /// text, that is #[doc = "text"]
DocAttr == Attr("namevalue", "doc", "", "text")

\* #[serde(skip)]
SerdeAttr == Attr("list", "serde", "skip", "")

\* #[marker]
MarkerAttr == Attr("path", "marker", "", "")

\* The expressions a default_value argument carries here.
Exprs == {"-1", "Default::default()"}

\* syn::Type of a field: Type::Array(elem, len) or a plain path type.
ScalarTy(t) == [array |-> FALSE, elem |-> t, len |-> 0]

ArrayTy(t, n) == [array |-> TRUE, elem |-> t, len |-> n]

\* A runtime value: a scalar of type ty (elems holds the one number) or an
\* array of element type ty.
Scalar(t, v) == [array |-> FALSE, ty |-> t, elems |-> <<v>>]

Array(t, es) == [array |-> TRUE, ty |-> t, elems |-> es]

\* ------------------------------------------------------------------ darling

\* The auto_from_attr attributes of a field, as darling collects them.
OwnAttrs(as) == SelectSeq(as, LAMBDA a : a.path = "auto_from_attr")

\* A field attribute darling rejects: a name-value form, an argument that is
\* no field of AutoFromAttr, or a default_value that is no expression.
Rejected(a) ==
    \/ a.kind = "namevalue"
    \/ a.kind = "list" /\ a.name \notin {"", "default_value"}
    \/ a.kind = "list" /\ a.name = "default_value" /\ a.expr \notin Exprs

\* The default_value arguments among a field's auto_from_attr attributes.
GivenDefaults(as) ==
    SelectSeq(OwnAttrs(as), LAMBDA a : a.kind = "list" /\ a.name = "default_value")

\* AutoFromAttr::from_field: Err on a rejected attribute or a repeated
\* default_value; otherwise default_value is the argument given, or None
\* (#[darling(default)]).
AutoFromAttr(as) ==
    IF \/ \E i \in 1..Len(OwnAttrs(as)) : Rejected(OwnAttrs(as)[i])
       \/ Len(GivenDefaults(as)) > 1
    THEN [ok |-> FALSE, default_value |-> None]
    ELSE [ok |-> TRUE,
          default_value |-> IF GivenDefaults(as) = <<>> THEN None
                            ELSE Some(GivenDefaults(as)[1].expr)]

\* ----------------------------------------------------------------- ImplData

\* ImplData::remove_attrs: retain keeps an attribute only when its meta is a
\* Meta::List whose path is not auto_from_attr.
remove_attrs(as) == SelectSeq(as, LAMBDA a : a.kind = "list" /\ a.path # "auto_from_attr")

\* The if-let of extract_defaults_from_input: the field has an identifier and
\* its attribute carries a default value.
IsDefaulted(f) == f.ident # None /\ AutoFromAttr(f.attrs).default_value # None

\* Panics with unwrap() replaced by unwrap_or_default(): no field panics.
PanicsMut(item) == FALSE

\* AutoFromAttr::from_field(field).unwrap() panics on some field.
Panics(item) == \E i \in 1..Len(item.fields) : ~AutoFromAttr(item.fields[i].attrs).ok

\* extract_defaults_from_input, its effect on the working copy: the fields
\* that enter the map lose attributes through remove_attrs, the others keep
\* theirs.
StripDefaults(item) ==
    [item EXCEPT !.fields =
        [i \in 1..Len(item.fields) |->
            IF IsDefaulted(item.fields[i])
            THEN [item.fields[i] EXCEPT !.attrs = remove_attrs(item.fields[i].attrs)]
            ELSE item.fields[i]]]

\* extract_defaults_from_input, its result: the HashMap<Ident, Expr>.
extract_defaults_from_input(item) ==
    [id \in {item.fields[i].ident[1] : i \in {j \in 1..Len(item.fields) : IsDefaulted(item.fields[j])}} |->
        LET i == CHOOSE j \in 1..Len(item.fields) : item.fields[j].ident = Some(id)
        IN  AutoFromAttr(item.fields[i].attrs).default_value[1]]

\* HashMap::into_iter: every key once, in an order the hasher's random state
\* decides.
IterOrders(map) ==
    {s \in [1..Cardinality(DOMAIN map) -> DOMAIN map] :
        \A i, j \in 1..Cardinality(DOMAIN map) : i # j => s[i] # s[j]}

\* .filter_map(|f| f.ident): the identifiers of the fields that have one.
Idents(fs) ==
    LET named == SelectSeq(fs, LAMBDA f : f.ident # None)
    IN  [i \in 1..Len(named) |-> named[i].ident[1]]

\* array_fields of from_parsed_input: the fields whose type is Type::Array.
array_fields(item, map) == Idents(SelectSeq(item.fields, LAMBDA f : f.ty.array))

\* fields of from_parsed_input: not Type::Array, and not a key of the map.
plain_fields(item, map) ==
    SelectSeq(Idents(SelectSeq(item.fields, LAMBDA f : ~f.ty.array)),
              LAMBDA i : i \notin DOMAIN map)

\* ImplData::from_parsed_input, with order the iteration order of the map.
from_parsed_input(item, order) ==
    LET map == extract_defaults_from_input(item)
    IN  [raw_into |-> StripDefaults(item),
         into |-> item.ident,
         generics |-> item.generics,
         fields |-> plain_fields(item, map),
         array_fields |-> array_fields(item, map),
         default_fields |-> order,
         default_values |-> [i \in 1..Len(order) |-> map[order[i]]]]


\* --------------------------------------------------------------- the macros

\* to_tokens of a syn::Path: its segments separated by :: tokens.
RECURSIVE PathTokens(_)
PathTokens(p) ==
    IF Len(p) = 0 THEN <<>>
    ELSE IF Len(p) = 1 THEN <<p[1]>>
    ELSE <<p[1], "::">> \o PathTokens(Tail(p))

IsIdentToken(t) == t \notin {"::", "42"}

\* parse_macro_input!(.. as Path): identifiers separated by ::, at least one.
RECURSIVE ParsePath(_)
ParsePath(toks) ==
    IF Len(toks) = 0 \/ ~IsIdentToken(toks[1]) THEN [ok |-> FALSE, path |-> <<>>]
    ELSE IF Len(toks) = 1 THEN [ok |-> TRUE, path |-> <<toks[1]>>]
    ELSE IF toks[2] # "::" THEN [ok |-> FALSE, path |-> <<>>]
    ELSE LET rest == ParsePath(SubSeq(toks, 3, Len(toks)))
         IN  [ok |-> rest.ok, path |-> IF rest.ok THEN <<toks[1]>> \o rest.path ELSE <<>>]

\* PlainClause that drops the source field and takes the type's default.
PlainClauseMut(f) == [field |-> f, init |-> "default", expr |-> "Default::default()"]

\* #fields: value.#fields.into(),
PlainClause(f) == [field |-> f, init |-> "into", expr |-> ""]

\* #array_fields: core::array::from_fn(..) in the first branch,
\* #array_fields: unsafe{ core::mem::zeroed() } in the second.
ArrayClause(f, strategy) ==
    [field |-> f, init |-> IF strategy = "aggregate" THEN "from_fn" ELSE "zeroed", expr |-> ""]

\* #default_fields: #default_values,
DefaultClause(f, e) == [field |-> f, init |-> "default", expr |-> e]

\* The quote! of construct_from_tokenstream: the declaration raw_into and the
\* impl, whose body is one struct literal (branch "aggregate") or a struct
\* literal followed by one assert_eq!/for_each pair per array field (branch
\* "zerofill"; stmts lists the fields of these pairs).
Emit(from, d) ==
    LET strategy == IF d.array_fields = <<>> THEN "aggregate" ELSE "zerofill"
    IN  [decl |-> Some(d.raw_into),
         impl |-> Some([from |-> from,
                        into |-> d.into,
                        generics |-> d.generics,
                        strategy |-> strategy,
                        literal |->
                            [i \in 1..Len(d.fields) |-> PlainClause(d.fields[i])]
                            \o [i \in 1..Len(d.array_fields) |-> ArrayClause(d.array_fields[i], strategy)]
                            \o [i \in 1..Len(d.default_fields) |->
                                    DefaultClause(d.default_fields[i], d.default_values[i])],
                        stmts |-> IF strategy = "aggregate" THEN <<>> ELSE d.array_fields]),
         error |-> None]

\* What parse_macro_input! returns on a parse error: a compile_error! and
\* nothing else.
ParseError == [decl |-> None, impl |-> None, error |-> Some("compile_error")]

\* A panicking macro returns no tokens.
NoTokens == [decl |-> None, impl |-> None, error |-> None]

\* construct_from_tokenstream(from, into): panics in from_parsed_input, or
\* emits the tokens built from ImplData.
construct_from_tokenstream(from, into) ==
    IF Panics(into)
    THEN /\ pc' = "failed"
         /\ data' = None
         /\ tokens' = NoTokens
    ELSE \E order \in IterOrders(extract_defaults_from_input(into)) :
            /\ pc' = "expanded"
            /\ data' = Some(from_parsed_input(into, order))
            /\ tokens' = Emit(from, from_parsed_input(into, order))

\* #[auto_from(attrs)] on input.
auto_from ==
    /\ pc = "input"
    /\ via' = "auto_from"
    /\ IF ~ParsePath(attrs).ok \/ input.kind # "struct"
       THEN pc' = "failed" /\ data' = None /\ tokens' = ParseError
       ELSE construct_from_tokenstream(ParsePath(attrs).path, input)
    /\ UNCHANGED <<attrs, input, value, out, k, reads>>

\* #[auto_from_ns(attrs)] on input: the source path is parsed from the tokens
\* #from_ns::#into_ident.
auto_from_ns ==
    /\ pc = "input"
    /\ via' = "auto_from_ns"
    /\ IF ~ParsePath(attrs).ok \/ input.kind # "struct"
       THEN pc' = "failed" /\ data' = None /\ tokens' = ParseError
       ELSE LET tok == PathTokens(ParsePath(attrs).path) \o <<"::", input.ident>>
            IN  IF ~ParsePath(tok).ok
                THEN pc' = "failed" /\ data' = None /\ tokens' = ParseError
                ELSE construct_from_tokenstream(ParsePath(tok).path, input)
    /\ UNCHANGED <<attrs, input, value, out, k, reads>>


\* ------------------------------------------------------- the emitted from()

Impl == tokens.impl[1]

\* The declared type of the destination's field f.
TyOf(f) == (CHOOSE fld \in {input.fields[i] : i \in 1..Len(input.fields)} : fld.ident = Some(f)).ty

\* From<S> for D exists: the reflexive impl, or the widening i16 -> i32.
ConvExists(s, d) == s = d \/ (s = "i16" /\ d = "i32")

\* .into() to type d: the reflexive impl returns its argument, a widening
\* returns the same number as a value of the wider type.
Into(v, d) == IF v.ty = d THEN v ELSE [v EXCEPT !.ty = d]

\* unsafe { core::mem::zeroed() } for an array type.
Zeroed(ty) == Array(ty.elem, [i \in 1..ty.len |-> 0])

\* A default_value expression evaluated for a field of type ty.
Eval(e, ty) ==
    IF e = "-1" THEN Scalar(ty.elem, 0 - 1)
    ELSE IF ty.array THEN Zeroed(ty) ELSE Scalar(ty.elem, 0)

\* The expression type-checks against the field's type.
TypeChecks(e, ty) == e = "Default::default()" \/ ~ty.array

\* rustc accepts the emitted items: the declaration carries no attribute
\* rustc does not know, the struct literal names every field of the struct
\* exactly once, and every expression of the body resolves (value has the
\* field, the conversion exists, the default expression has the field's type).
Compiles ==
    /\ pc = "expanded"
    /\ \A i \in 1..Len(tokens.decl[1].fields) :
          /\ tokens.decl[1].fields[i].ident # None
          /\ \A j \in 1..Len(tokens.decl[1].fields[i].attrs) :
                tokens.decl[1].fields[i].attrs[j].path # "auto_from_attr"
    /\ \A i, j \in 1..Len(Impl.literal) : i # j => Impl.literal[i].field # Impl.literal[j].field
    /\ \A i \in 1..Len(Impl.literal) :
          LET c == Impl.literal[i]
          IN  CASE c.init = "into" ->
                      /\ c.field \in DOMAIN value
                      /\ ~value[c.field].array
                      /\ ConvExists(value[c.field].ty, TyOf(c.field).elem)
                [] c.init = "default" -> TypeChecks(c.expr, TyOf(c.field))
                [] OTHER -> TRUE
    /\ \A i \in 1..Len(Impl.stmts) :
          /\ Impl.stmts[i] \in DOMAIN value
          /\ value[Impl.stmts[i]].array
          /\ ConvExists(value[Impl.stmts[i]].ty, TyOf(Impl.stmts[i]).elem)

\* One clause of the struct literal, evaluated.
ClauseValue(c) ==
    CASE c.init = "into" -> Into(value[c.field], TyOf(c.field).elem)
      [] c.init = "zeroed" -> Zeroed(TyOf(c.field))
      [] c.init = "from_fn" ->
            Array(TyOf(c.field).elem,
                  [i \in 1..TyOf(c.field).len |-> value[c.field].elems[i]])
      [] OTHER -> Eval(c.expr, TyOf(c.field))

\* The struct literal Self { .. }.
Literal ==
    [f \in {Impl.literal[i].field : i \in 1..Len(Impl.literal)} |->
        ClauseValue(CHOOSE c \in {Impl.literal[i] : i \in 1..Len(Impl.literal)} : c.field = f)]

\* The source fields the struct literal reads.
LiteralReads ==
    {Impl.literal[i].field : i \in {j \in 1..Len(Impl.literal) : Impl.literal[j].init \in {"into", "from_fn"}}}

\* from(value), first statement: the struct literal, which is the returned
\* value in the first branch and `let mut out` in the second.
FromLiteral ==
    /\ Compiles
    /\ out' = Literal
    /\ reads' = LiteralReads
    /\ IF Impl.strategy = "aggregate"
       THEN pc' = "returned" /\ k' = 0
       ELSE pc' = "assert" /\ k' = 1
    /\ UNCHANGED <<attrs, input, value, via, data, tokens>>

\* assert_eq!(out.f.len(), value.f.len()) for the k-th array field.
FromAssert ==
    /\ pc = "assert"
    /\ reads' = reads \cup {Impl.stmts[k]}
    /\ pc' = IF Len(out[Impl.stmts[k]].elems) = Len(value[Impl.stmts[k]].elems)
             THEN "overwrite" ELSE "aborted"
    /\ UNCHANGED <<attrs, input, value, via, data, tokens, out, k>>

\* ZipForEach that stops one pair early.
ZipForEachMut(l, r) ==
    [l EXCEPT !.elems = [i \in 1..Len(l.elems) |->
        IF i < Len(l.elems) /\ i <= Len(r.elems)
        THEN Into(Scalar(r.ty, r.elems[i]), l.ty).elems[1] ELSE l.elems[i]]]

\* l.iter_mut().zip(r.iter()).for_each(|(l, r)| *l = (*r).into()): the
\* pairs the zip yields are those of the shorter side.
ZipForEach(l, r) ==
    [l EXCEPT !.elems = [i \in 1..Len(l.elems) |->
        IF i <= Len(r.elems)
        THEN Into(Scalar(r.ty, r.elems[i]), l.ty).elems[1] ELSE l.elems[i]]]

\* The for_each over the k-th array field.
FromOverwrite ==
    /\ pc = "overwrite"
    /\ out' = [out EXCEPT ![Impl.stmts[k]] = ZipForEach(out[Impl.stmts[k]], value[Impl.stmts[k]])]
    /\ IF k < Len(Impl.stmts)
       THEN pc' = "assert" /\ k' = k + 1
       ELSE pc' = "tail" /\ k' = k
    /\ UNCHANGED <<attrs, input, value, via, data, tokens, reads>>

\* The tail expression `out` of the second branch.
FromReturn ==
    /\ pc = "tail"
    /\ pc' = "returned"
    /\ UNCHANGED <<attrs, input, value, via, data, tokens, out, k, reads>>


\* ------------------------------------------------------------------- inputs

\* The attribute lists a field carries in the declarations explored.
AttrLists ==
    {<<>>,
     <<DefaultAttr("-1")>>,
     <<DefaultAttr("Default::default()")>>,
     <<EmptyAttr>>,
     <<UnknownArgAttr>>,
     <<BadExprAttr>>,
     <<DocAttr, SerdeAttr>>,
     <<DocAttr, DefaultAttr("-1")>>,
     <<MarkerAttr, DefaultAttr("-1"), SerdeAttr>>,
     <<SerdeAttr, DocAttr, EmptyAttr>>}

\* The macro arguments explored: two paths and a literal.
TokenStreams == {<<"Model1">>, <<"super", "::", "first">>, <<"42">>}

\* A source value whose field has exactly the destination field's type.
Matching(ty) ==
    IF ty.array THEN Array(ty.elem, [i \in 1..ty.len |-> i]) ELSE Scalar(ty.elem, 1)

\* Field choices that vary the attributes: a scalar or a one-element array,
\* the source holding a field of the same type.
SyntaxChoices ==
    {[ty |-> t, attrs |-> as, src |-> Some(Matching(t))] :
        t \in {ScalarTy("i32"), ArrayTy("i32", 1)}, as \in AttrLists}

\* Field choices that vary the values: plain scalars, defaulted scalars with
\* and without a source field, arrays against source arrays of every length
\* and both element types.
ValueChoices ==
    {[ty |-> ScalarTy("i32"), attrs |-> <<>>, src |-> Some(v)] :
        v \in {Scalar("i32", 1), Scalar("i32", 2), Scalar("i16", 1)}}
    \cup {[ty |-> ScalarTy("i32"), attrs |-> <<DefaultAttr(e)>>, src |-> s] :
            e \in Exprs, s \in {None, Some(Scalar("i32", 1))}}
    \cup {[ty |-> ArrayTy("i32", n), attrs |-> <<>>, src |-> Some(Array(t, [i \in 1..m |-> i]))] :
            n \in 0..MaxArrayLen, m \in 0..MaxArrayLen, t \in {"i32", "i16"}}

FieldLists(choices) == UNION {[1..n -> choices] : n \in 0..MaxFields}

\* The item the macro is applied to: struct ident generics { fields }, with
\* named fields or (named = FALSE) as a tuple struct.
Struct(ident, generics, named, cs) ==
    [kind |-> "struct",
     ident |-> ident,
     generics |-> generics,
     fields |-> [i \in 1..Len(cs) |->
                    [ident |-> IF named THEN Some(FieldNames[i]) ELSE None,
                     ty |-> cs[i].ty,
                     attrs |-> cs[i].attrs]]]

\* An item that is no struct.
Enum == [kind |-> "enum", ident |-> "Foo", generics |-> <<>>, fields |-> <<>>]

\* The source value: the fields the choices give it, by name.
Source(cs) ==
    [f \in {FieldNames[i] : i \in {j \in 1..Len(cs) : cs[j].src # None}} |->
        cs[CHOOSE i \in 1..Len(cs) : FieldNames[i] = f].src[1]]

Init ==
    /\ pc = "input"
    /\ via = ""
    /\ data = None
    /\ tokens = NoTokens
    /\ out = <<>>
    /\ k = 0
    /\ reads = {}
    /\ \/ \E cs \in FieldLists(SyntaxChoices), named \in BOOLEAN, g \in {<<>>, <<"T">>} :
             /\ input = Struct("Foo", g, named, cs)
             /\ value = Source(cs)
             /\ attrs \in TokenStreams
       \/ \E cs \in FieldLists(ValueChoices) :
             /\ input = Struct("Foo", <<>>, TRUE, cs)
             /\ value = Source(cs)
             /\ attrs = <<"Model1">>
       \/ /\ input = Enum
          /\ value = Source(<<>>)
          /\ attrs \in TokenStreams

Next ==
    \/ auto_from
    \/ auto_from_ns
    \/ FromLiteral
    \/ FromAssert
    \/ FromOverwrite
    \/ FromReturn

Spec == Init /\ [][Next]_vars


\* ---------------------------------------------------------------- properties

\* The declaration as written: which fields carry
\* #[auto_from_attr(default_value = e)], and with which e.
HasDefault(fld) == \E j \in 1..Len(fld.attrs) : \E e \in Exprs : fld.attrs[j] = DefaultAttr(e)

DefaultExpr(fld) == CHOOSE e \in Exprs : \E j \in 1..Len(fld.attrs) : fld.attrs[j] = DefaultAttr(e)

Range(s) == {s[i] : i \in 1..Len(s)}

Position(f) == CHOOSE i \in 1..Len(FieldNames) : FieldNames[i] = f

InDeclarationOrder(s) == \A i, j \in 1..Len(s) : i < j => Position(s[i]) < Position(s[j])

AllNamed == \A i \in 1..Len(input.fields) : input.fields[i].ident # None

\* An auto_from_attr argument that is no default_value = <expression>.
Malformed(item) ==
    \E i \in 1..Len(item.fields) : \E j \in 1..Len(item.fields[i].attrs) :
        LET a == item.fields[i].attrs[j]
        IN  /\ a.path = "auto_from_attr"
            /\ \/ a.name \notin {"", "default_value"}
               \/ a.name = "default_value" /\ a.expr \notin Exprs

\* The declaration with its auto_from_attr attributes removed and nothing
\* else changed.
WithoutOwnAttrs(item) ==
    [item EXCEPT !.fields =
        [i \in 1..Len(item.fields) |->
            [item.fields[i] EXCEPT !.attrs =
                SelectSeq(item.fields[i].attrs, LAMBDA a : a.path # "auto_from_attr")]]]

\* The named fields of fixed-size array type that carry no default value, in
\* declaration order.
ArrayFieldsDeclared ==
    Idents(SelectSeq(input.fields, LAMBDA fld : fld.ty.array /\ ~HasDefault(fld)))

\* C1: every field with a default_value attribute, whatever its type and
\* whether or not the source has the field, is initialised by its own
\* expression and by nothing else: the emitted routine has exactly the
\* default clause for it and no statement that touches value.f, the call
\* never reads value.f, and the returned value holds the expression's value.
C1_DefaultPrecedence ==
    \A i \in 1..Len(input.fields) :
        LET fld == input.fields[i]
        IN  (fld.ident # None /\ HasDefault(fld)) =>
                /\ fld.ident[1] \notin reads
                /\ pc = "returned" => out[fld.ident[1]] = Eval(DefaultExpr(fld), fld.ty)
                /\ pc = "expanded" =>
                      /\ fld.ident[1] \notin Range(Impl.stmts)
                      /\ \A c \in Range(Impl.literal) :
                            c.field = fld.ident[1] =>
                                c = DefaultClause(fld.ident[1], DefaultExpr(fld))

\* C2: on return, every plain field (named, not an array, no default value)
\* whose source field has the identical type equals the source field, in the
\* aggregate and in the zero-fill branch.
C2_PlainRoundTrip ==
    pc = "returned" =>
        \A i \in 1..Len(input.fields) :
            LET fld == input.fields[i]
            IN  (/\ fld.ident # None
                 /\ ~fld.ty.array
                 /\ ~HasDefault(fld)
                 /\ fld.ident[1] \in DOMAIN value
                 /\ ~value[fld.ident[1]].array
                 /\ value[fld.ident[1]].ty = fld.ty.elem)
                => out[fld.ident[1]] = value[fld.ident[1]]

\* C2 witness: a call returned from the zero-fill branch with a plain field
\* copied from a source value of the same type.
C2_Witness ==
    /\ pc = "returned"
    /\ Impl.strategy = "zerofill"
    /\ "a" \in DOMAIN value
    /\ ~input.fields[1].ty.array
    /\ input.fields[1].attrs = <<>>
    /\ value["a"] = Scalar("i32", 2)
    /\ out["a"] = Scalar("i32", 2)

\* C3: for every array field f of declared length N: if value.f has length N
\* then on return out.f[i] is the conversion of value.f[i] for every i; if
\* the lengths differ the call never reaches the overwrite of f nor a return,
\* and an abort happens at a failed length assertion whose field is still
\* the zero placeholder.
C3_ArrayElementwise ==
    /\ pc = "aborted" =>
          /\ Len(value[Impl.stmts[k]].elems) # TyOf(Impl.stmts[k]).len
          /\ out[Impl.stmts[k]] = Zeroed(TyOf(Impl.stmts[k]))
    /\ \A f \in Range(ArrayFieldsDeclared) :
          (pc \in {"assert", "overwrite", "tail", "aborted", "returned"}) =>
             IF Len(value[f].elems) = TyOf(f).len
             THEN pc = "returned" =>
                    out[f] = Array(TyOf(f).elem,
                                   [i \in 1..TyOf(f).len |->
                                       Into(Scalar(value[f].ty, value[f].elems[i]), TyOf(f).elem).elems[1]])
             ELSE /\ pc \notin {"tail", "returned"}
                  /\ pc = "overwrite" => Impl.stmts[k] # f
                  /\ out[f] = Zeroed(TyOf(f))

\* C3 witness: a returned call that converted a two-element i16 array.
C3_Witness ==
    /\ pc = "returned"
    /\ "a" \in Range(ArrayFieldsDeclared)
    /\ value["a"] = Array("i16", <<1, 2>>)
    /\ out["a"] = Array("i32", <<1, 2>>)

\* C4: when generation succeeds, no field of the emitted declaration carries
\* an auto_from_attr attribute.
C4_AttributeStripping ==
    pc \notin {"input", "failed"} =>
        \A i \in 1..Len(tokens.decl[1].fields) :
            \A a \in Range(tokens.decl[1].fields[i].attrs) : a.path # "auto_from_attr"

\* C5: when generation succeeds, the emitted declaration keeps the struct
\* name, the generics, and every field's name and type in order, and on
\* every field the attributes other than auto_from_attr, of whatever form,
\* in their original order.
C5_DeclarationUnchanged ==
    pc \notin {"input", "failed"} => WithoutOwnAttrs(tokens.decl[1]) = WithoutOwnAttrs(input)

\* C6: what auto_from_ns(ns) emits for a declaration named T is exactly what
\* any expansion of auto_from(ns::T) emits for it.
C6_NamespaceEquivalence ==
    (via = "auto_from_ns" /\ pc = "expanded") =>
        \A order \in IterOrders(extract_defaults_from_input(input)) :
            tokens = Emit(ParsePath(attrs).path \o <<input.ident>>, from_parsed_input(input, order))

\* C7: after an expansion the declaration and the impl are both emitted or
\* both absent, they are absent exactly when the expansion failed, and a
\* malformed auto_from_attr argument on any field leaves both absent.
C7_AllOrNothing ==
    /\ tokens.decl = None <=> tokens.impl = None
    /\ pc = "failed" <=> (pc # "input" /\ tokens.decl = None)
    /\ (pc # "input" /\ Malformed(input)) => (tokens.decl = None /\ tokens.impl = None)

\* C7 witness: an expansion that failed on a malformed argument although
\* both macro inputs parsed.
C7_Witness ==
    /\ pc = "failed"
    /\ ParsePath(attrs).ok
    /\ input.kind = "struct"
    /\ Malformed(input)
    /\ tokens = NoTokens

\* C8: for a struct with named fields, every field is in exactly one bucket
\* and in exactly one clause of the struct literal, and a field with a
\* default value is in default_fields only, with no array-copy statement.
C8_Partition ==
    (pc = "expanded" /\ AllNamed) =>
        \A i \in 1..Len(input.fields) :
            LET fld == input.fields[i]
                f == fld.ident[1]
            IN  /\ Cardinality({b \in {"fields", "array_fields", "default_fields"} :
                                    f \in Range(data[1][b])}) = 1
                /\ Cardinality({j \in 1..Len(Impl.literal) : Impl.literal[j].field = f}) = 1
                /\ HasDefault(fld) =>
                      /\ f \in Range(data[1].default_fields)
                      /\ f \notin Range(Impl.stmts)

\* C9: each bucket lists its fields in declaration order, and every
\* expansion of the same declaration emits the same output.
C9_DeterministicOrder ==
    pc = "expanded" =>
        /\ InDeclarationOrder(data[1].fields)
        /\ InDeclarationOrder(data[1].array_fields)
        /\ InDeclarationOrder(data[1].default_fields)
        /\ \A order \in IterOrders(extract_defaults_from_input(input)) :
              tokens = Emit(Impl.from, from_parsed_input(input, order))

\* C10: the routine is one aggregate initialisation of plain and defaulted
\* clauses, with no placeholder and no statement after it, exactly when the
\* struct has no array field; otherwise it is the zero-fill branch with one
\* assertion and one overwrite per array field.
C10_StrategyChoice ==
    (pc = "expanded" /\ AllNamed) =>
        IF ArrayFieldsDeclared = <<>>
        THEN /\ Impl.strategy = "aggregate"
             /\ Impl.stmts = <<>>
             /\ \A c \in Range(Impl.literal) : c.init \in {"into", "default"}
        ELSE /\ Impl.strategy = "zerofill"
             /\ Impl.stmts = ArrayFieldsDeclared

====
